---------------------------- MODULE Spec2Model ----------------------------
(***************************************************************************)
(* A model of the office MCP server (src/src/main.py): the OfficeManager   *)
(* document operations over a workspace directory, the tool registry, the  *)
(* dispatcher handle_call_tool, and the event loop that runs the handler.  *)
(*                                                                         *)
(* Strings whose characters the code inspects (texts, file names, sheet    *)
(* names) are sequences of one-character strings.  The three document      *)
(* libraries are modelled by their documented behaviour at the calls the   *)
(* code makes: what a call stores, what it raises, and what a later open   *)
(* of the saved file reads back.                                           *)
(***************************************************************************)
EXTENDS Integers, Sequences, FiniteSets, TLC

VARIABLES
    files,      \* the file system: location -> content of the file there
    call,       \* the tool call handled last: [name, args]
    invoked,    \* the OfficeManager method that call invoked ("none" if none)
    reply,      \* what handle_call_tool gave back to the transport loop
    created,    \* the file names whose create_* call reported success
    ncalls,     \* the tool calls handled so far
    tasks,      \* event loop: the handler tasks, one per request received
    running,    \* event loop: the task that holds the thread (0: loop idle)
    appended    \* event loop: paragraphs whose append reported success

vars == <<files, call, invoked, reply, created, ncalls, tasks, running, appended>>
loopVars == <<tasks, running, appended>>

(***************************************************************************)
(* Bounds of the model.                                                    *)
(***************************************************************************)
MaxCalls == 3       \* tool calls handled per run
MaxRequests == 3    \* tool-call requests the transport delivers per run

(***************************************************************************)
(* Text.                                                                   *)
(***************************************************************************)
Whitespace == {" ", "\t", "\n", "\r"}

\* str.strip() leaves nothing: every character is whitespace.
IsBlank(s) == \A i \in 1..Len(s) : s[i] \in Whitespace

RECURSIVE Join(_, _)
\* sep.join(parts)
Join(sep, parts) ==
    IF parts = <<>> THEN <<>>
    ELSE IF Len(parts) = 1 THEN parts[1]
    ELSE parts[1] \o sep \o Join(sep, Tail(parts))

RECURSIVE LastIndexOf(_, _)
\* the greatest i with s[i] = c, or 0
LastIndexOf(s, c) ==
    IF s = <<>> THEN 0
    ELSE IF s[Len(s)] = c THEN Len(s)
    ELSE LastIndexOf(SubSeq(s, 1, Len(s) - 1), c)

\* PurePath.suffix / os.path.splitext: from the last dot of the final
\* component, unless the name has none or starts with it.
Suffix(name) ==
    LET i == LastIndexOf(name, ".")
    IN  IF i <= 1 \/ i = Len(name) THEN <<>> ELSE SubSeq(name, i, Len(name))

T_text == <<"T">>
Body_text == <<"b", "o", "d", "y">>
Blank_text == <<" ">>
CR_text == <<"a", "\r", "c">>

(***************************************************************************)
(* File names and the workspace.                                           *)
(***************************************************************************)
Str(comps) == [ty |-> "str", comps |-> comps]
NotAStr == [ty |-> "int", comps |-> <<>>]       \* a wrongly typed filename
NoFile == [ty |-> "none", comps |-> <<>>]

A_docx == Str(<< <<"a", ".", "d", "o", "c", "x">> >>)
B_xlsx == Str(<< <<"b", ".", "x", "l", "s", "x">> >>)
\* "../x.docx": a relative segment that leaves the workspace
Up_docx == Str(<< <<".", ".">>, <<"x", ".", "d", "o", "c", "x">> >>)
\* "nodir/y.xlsx": a directory that does not exist
Sub_xlsx == Str(<< <<"n", "o", "d", "i", "r">>, <<"y", ".", "x", "l", "s", "x">> >>)

DotDot == <<".", ".">>
Dot == <<".">>

RECURSIVE Resolve(_, _)
\* The location the operating system resolves workspace_dir / comps to,
\* relative to the workspace directory.
Resolve(at, comps) ==
    IF comps = <<>> THEN at
    ELSE IF Head(comps) = Dot THEN Resolve(at, Tail(comps))
    ELSE IF Head(comps) = DotDot /\ at # <<>> /\ at[Len(at)] # DotDot
         THEN Resolve(SubSeq(at, 1, Len(at) - 1), Tail(comps))
    ELSE Resolve(Append(at, Head(comps)), Tail(comps))

\* The directories that exist: the workspace (created by __init__) and its
\* parent.  No operation creates a directory.
Dirs == {<<>>, <<DotDot>>}

AllNames == {A_docx, B_xlsx, Up_docx, Sub_xlsx}
Locations == {Resolve(<<>>, f.comps) : f \in AllNames}

Parent(loc) == SubSeq(loc, 1, Len(loc) - 1)
BaseName(loc) == loc[Len(loc)]

(***************************************************************************)
(* File contents: what the library reads back from the saved file.         *)
(***************************************************************************)
Absent == [kind |-> "absent", paras |-> <<>>, sheets |-> <<>>, cells |-> {}, slides |-> <<>>]
\* a file a failed save left truncated
Corrupt == [Absent EXCEPT !.kind = "corrupt"]
WordDoc(paras) == [Absent EXCEPT !.kind = "word", !.paras = paras]
Workbook(sheets, cells) == [Absent EXCEPT !.kind = "excel", !.sheets = sheets, !.cells = cells]
Deck(slides) == [Absent EXCEPT !.kind = "ppt", !.slides = slides]

\* A faulty variant of Exists: the existence check is skipped.
ExistsUnchecked(fs, loc) == TRUE

\* Path.exists()
Exists(fs, loc) == loc \in Dirs \/ (loc \in DOMAIN fs /\ fs[loc].kind # "absent")

(***************************************************************************)
(* Results and the control flow of a method body.                          *)
(***************************************************************************)
NoResult ==
    [kind |-> "none", op |-> "", file |-> NoFile, exc |-> "", text |-> <<>>,
     rows |-> <<>>, titles |-> <<>>, entries |-> {}]

\* f"...'{filename}' 创建成功..." and the other success messages
Success(kind, op, filename) == [NoResult EXCEPT !.kind = kind, !.op = op, !.file = filename]
\* f"文件 '{filename}' 不存在"
NotExist(filename) == [NoResult EXCEPT !.kind = "not_exist", !.file = filename]
\* f"<what failed>: {str(e)}"
Failure(op, exc) == [NoResult EXCEPT !.kind = "failed", !.op = op, !.exc = exc]

\* A body that ran to a return statement, and one that raised.
Return(res, fs) == [raised |-> FALSE, exc |-> "", res |-> res, fs |-> fs]
Raise(exc, fs) == [raised |-> TRUE, exc |-> exc, res |-> NoResult, fs |-> fs]

\* A faulty variant of Catch: the except clause is missing.
CatchNothing(op, out) == out

\* try: <body> except Exception as e: return f"...失败: {str(e)}"
Catch(op, out) ==
    IF out.raised THEN Return(Failure(op, out.exc), out.fs) ELSE out

\* self.workspace_dir / filename
get_file_path(filename) ==
    IF filename.ty = "str"
    THEN [raised |-> FALSE, exc |-> "", loc |-> Resolve(<<>>, filename.comps)]
    ELSE [raised |-> TRUE, exc |-> "unsupported operand type(s) for /", loc |-> <<>>]

\* The library's save: it opens the target for writing, which raises before
\* anything is written when the target is a directory or its directory is
\* missing.
SaveFile(fs, loc, content) ==
    IF loc \in Dirs THEN Raise("Is a directory", fs)
    ELSE IF Parent(loc) \notin Dirs \/ loc \notin DOMAIN fs THEN Raise("No such file or directory", fs)
    ELSE Return(NoResult, [fs EXCEPT ![loc] = content])


(***************************************************************************)
(* Word documents (python-docx).                                           *)
(***************************************************************************)
\* The text a paragraph holds after add_paragraph / add_heading stored s:
\* the run stores a line break for "\n" and for "\r" alike, and
\* paragraph.text reads every line break back as "\n".
ParagraphText(s) == [i \in 1..Len(s) |-> IF s[i] = "\r" THEN "\n" ELSE s[i]]

\* A faulty variant of AddParagraph: the new paragraph replaces the body.
AddParagraphReplacing(paras, s) == <<ParagraphText(s)>>

\* doc.add_paragraph(s): the new paragraph goes last.
AddParagraph(paras, s) == Append(paras, ParagraphText(s))

\* doc.add_heading(s, level): a paragraph styled "Heading <level>"; the
\* library raises for a level outside 0..9.
HeadingLevelOk(level) == level >= 0 /\ level <= 9

\* Document(file_path): raises unless the file is a Word package.
OpenDocument(fs, loc) ==
    IF loc \in DOMAIN fs /\ fs[loc].kind = "word"
    THEN [raised |-> FALSE, exc |-> "", paras |-> fs[loc].paras]
    ELSE [raised |-> TRUE, exc |-> "not a Word file", paras |-> <<>>]

\* main.py 53-69
create_word_document(fs, filename, title, content) ==
    Catch("create_word_document",
        LET d0 == <<>>                                            \* Document()
            d1 == IF title # <<>> THEN AddParagraph(d0, title) ELSE d0
            d2 == IF content # <<>> THEN AddParagraph(d1, content) ELSE d1
            p  == get_file_path(filename)
        IN  IF p.raised THEN Raise(p.exc, fs)
            ELSE LET s == SaveFile(fs, p.loc, WordDoc(d2))
                 IN  IF s.raised THEN s
                     ELSE Return(Success("created", "create_word_document", filename), s.fs))

\* main.py 71-90
add_word_content(fs, filename, content, heading_level) ==
    Catch("add_word_content",
        LET p == get_file_path(filename)
        IN  IF p.raised THEN Raise(p.exc, fs)
            ELSE IF ~Exists(fs, p.loc) THEN Return(NotExist(filename), fs)
            ELSE LET d == OpenDocument(fs, p.loc)
                 IN  IF d.raised THEN Raise(d.exc, fs)
                     ELSE IF heading_level > 0 /\ ~HeadingLevelOk(heading_level)
                          THEN Raise("level must be in range 0-9", fs)
                     ELSE LET s == SaveFile(fs, p.loc, WordDoc(AddParagraph(d.paras, content)))
                          IN  IF s.raised THEN s
                              ELSE Return(Success("added", "add_word_content", filename), s.fs))

\* A faulty variant of NonBlank: blank paragraphs are kept.
EveryParagraph(paras) == paras

\* [p.text for p in doc.paragraphs if p.text.strip()]
NonBlank(paras) == SelectSeq(paras, LAMBDA s : ~IsBlank(s))

\* "\n".join(content)
ReadText(paras) == Join(<<"\n">>, NonBlank(paras))

\* main.py 92-109
read_word_document(fs, filename) ==
    Catch("read_word_document",
        LET p == get_file_path(filename)
        IN  IF p.raised THEN Raise(p.exc, fs)
            ELSE IF ~Exists(fs, p.loc) THEN Return(NotExist(filename), fs)
            ELSE LET d == OpenDocument(fs, p.loc)
                 IN  IF d.raised THEN Raise(d.exc, fs)
                     ELSE Return([NoResult EXCEPT !.kind = "text", !.op = "read_word_document",
                                                  !.text = ReadText(d.paras)], fs))


(***************************************************************************)
(* Excel workbooks (openpyxl).  A cell value is a JSON token; a saved      *)
(* sheet holds the cells whose value is not None.                          *)
(***************************************************************************)
None_val == "null"
Obj_val == "{}"               \* a JSON object: no cell value converts from it
Sheet1 == <<"S", "h", "e", "e", "t", "1">>
Data_sheet == <<"D", "a", "t", "a">>
Bad_sheet == <<"a", "/", "b">>

InvalidTitleChars == {"\\", "*", "?", ":", "/", "[", "]"}
TitleOk(name) == \A i \in 1..Len(name) : name[i] \notin InvalidTitleChars

\* The suffixes load_workbook accepts.
SupportedFormats ==
    { <<".", "x", "l", "s", "x">>, <<".", "x", "l", "s", "m">>,
      <<".", "x", "l", "t", "x">>, <<".", "x", "l", "t", "m">> }

\* The last column the writer can name ("ZZZ").
MaxColumnIndex == 18278

InSeq(x, sq) == \E i \in 1..Len(sq) : sq[i] = x

\* openpyxl.load_workbook(file_path)
LoadWorkbook(fs, loc) ==
    IF Suffix(BaseName(loc)) \notin SupportedFormats
    THEN [raised |-> TRUE, exc |-> "openpyxl does not support this file format", wb |-> Absent]
    ELSE IF loc \in DOMAIN fs /\ fs[loc].kind = "excel"
    THEN [raised |-> FALSE, exc |-> "", wb |-> fs[loc]]
    ELSE [raised |-> TRUE, exc |-> "File is not a workbook", wb |-> Absent]

CellAt(sheet, r, c, v) == [sheet |-> sheet, row |-> r, col |-> c, val |-> v]

\* The value of cell (r, c) of a sheet, None when the sheet holds none.
ValueAt(cells, sheet, r, c) ==
    IF \E x \in cells : x.sheet = sheet /\ x.row = r /\ x.col = c
    THEN (CHOOSE x \in cells : x.sheet = sheet /\ x.row = r /\ x.col = c).val
    ELSE None_val

\* A faulty variant of SetCell: row and column are exchanged.
SetCellTransposed(cells, sheet, r, c, v) ==
    {x \in cells : ~(x.sheet = sheet /\ x.row = c /\ x.col = r)} \cup {CellAt(sheet, c, r, v)}

\* cell.value = v
SetCell(cells, sheet, r, c, v) ==
    {x \in cells : ~(x.sheet = sheet /\ x.row = r /\ x.col = c)} \cup {CellAt(sheet, r, c, v)}

\* ws.cell(row=r, column=c, value=v) on the sheet in memory: mem holds the
\* valued cells, the columns of every cell object made, and what was raised.
WsCell(mem, sheet, r, c, v) ==
    IF r < 1 \/ c < 1
    THEN [mem EXCEPT !.raised = TRUE, !.exc = "Row or column values must be at least 1"]
    ELSE IF v = None_val
    THEN [mem EXCEPT !.cols = @ \cup {c}]
    ELSE IF v = Obj_val
    THEN [mem EXCEPT !.cols = @ \cup {c}, !.raised = TRUE, !.exc = "Cannot convert to Excel"]
    ELSE [mem EXCEPT !.cols = @ \cup {c}, !.cells = SetCell(@, sheet, r, c, v)]

RECURSIVE WriteRow(_, _, _, _, _, _)
\* for col_idx, cell_value in enumerate(row_data), from index j on; an
\* exception ends the loop
WriteRow(mem, sheet, r, c0, row, j) ==
    IF j > Len(row) THEN mem
    ELSE LET next == WsCell(mem, sheet, r, c0 + (j - 1), row[j])
         IN  IF next.raised THEN next ELSE WriteRow(next, sheet, r, c0, row, j + 1)

RECURSIVE WriteRows(_, _, _, _, _, _)
\* for row_idx, row_data in enumerate(data), from index i on
WriteRows(mem, sheet, r0, c0, data, i) ==
    IF i > Len(data) THEN mem
    ELSE LET next == WriteRow(mem, sheet, r0 + (i - 1), c0, data[i], 1)
         IN  IF next.raised THEN next ELSE WriteRows(next, sheet, r0, c0, data, i + 1)

\* wb.save(file_path): the target is opened for writing, which truncates it,
\* and the sheets are written after that; naming a column past the last one
\* raises there, with the file already truncated.
SaveWorkbook(fs, loc, sheets, mem) ==
    LET s == SaveFile(fs, loc, Workbook(sheets, mem.cells))
    IN  IF s.raised THEN s
        ELSE IF \E c \in mem.cols : c > MaxColumnIndex
        THEN Raise("Invalid column index", [fs EXCEPT ![loc] = Corrupt])
        ELSE s

\* main.py 112-124
create_excel_workbook(fs, filename, sheet_name) ==
    Catch("create_excel_workbook",
        IF ~TitleOk(sheet_name) THEN Raise("Invalid character found in sheet title", fs)
        ELSE LET p == get_file_path(filename)
             IN  IF p.raised THEN Raise(p.exc, fs)
                 ELSE LET s == SaveFile(fs, p.loc, Workbook(<<sheet_name>>, {}))
                      IN  IF s.raised THEN s
                          ELSE Return(Success("created", "create_excel_workbook", filename), s.fs))

\* main.py 126-152
write_excel_data(fs, filename, sheet_name, data, start_row, start_col) ==
    Catch("write_excel_data",
        LET p == get_file_path(filename)
        IN  IF p.raised THEN Raise(p.exc, fs)
            ELSE IF ~Exists(fs, p.loc) THEN Return(NotExist(filename), fs)
            ELSE LET w == LoadWorkbook(fs, p.loc)
                 IN  IF w.raised THEN Raise(w.exc, fs)
                     ELSE IF ~InSeq(sheet_name, w.wb.sheets) /\ ~TitleOk(sheet_name)
                          THEN Raise("Invalid character found in sheet title", fs)
                     ELSE LET sheets == IF InSeq(sheet_name, w.wb.sheets) THEN w.wb.sheets
                                        ELSE Append(w.wb.sheets, sheet_name)
                              mem0 == [raised |-> FALSE, exc |-> "", cells |-> w.wb.cells, cols |-> {}]
                              mem == WriteRows(mem0, sheet_name, start_row, start_col, data, 1)
                          IN  IF mem.raised THEN Raise(mem.exc, fs)
                              ELSE LET s == SaveWorkbook(fs, p.loc, sheets, mem)
                                   IN  IF s.raised THEN s
                                       ELSE Return(Success("written", "write_excel_data", filename), s.fs))

Max(S) == CHOOSE x \in S : \A y \in S : y <= x

\* if any(cell is not None for cell in row)
KeptRows(rows) == SelectSeq(rows, LAMBDA row : \E j \in 1..Len(row) : row[j] # None_val)

\* [list(row) for row in ws.iter_rows(values_only=True) if any(...)]: the
\* rows 1..max_row over the columns 1..max_column of the loaded sheet.
SheetRows(cells, sheet) ==
    LET mine == {x \in cells : x.sheet = sheet}
    IN  IF mine = {} THEN <<>>
        ELSE LET maxr == Max({x.row : x \in mine})
                 maxc == Max({x.col : x \in mine})
             IN  KeptRows([r \in 1..maxr |-> [c \in 1..maxc |-> ValueAt(cells, sheet, r, c)]])

\* main.py 154-179; sheet_name is <<>> with given FALSE for None
read_excel_data(fs, filename, given, sheet_name) ==
    Catch("read_excel_data",
        LET p == get_file_path(filename)
        IN  IF p.raised THEN Raise(p.exc, fs)
            ELSE IF ~Exists(fs, p.loc) THEN Return(NotExist(filename), fs)
            ELSE LET w == LoadWorkbook(fs, p.loc)
                 IN  IF w.raised THEN Raise(w.exc, fs)
                     ELSE LET name == IF given THEN sheet_name ELSE w.wb.sheets[1]
                          IN  IF ~InSeq(name, w.wb.sheets)
                              THEN Return([NoResult EXCEPT !.kind = "no_sheet", !.op = "read_excel_data"], fs)
                              ELSE Return([NoResult EXCEPT !.kind = "rows", !.op = "read_excel_data",
                                                           !.rows = SheetRows(w.wb.cells, name)], fs))


(***************************************************************************)
(* Presentations (python-pptx, default template).                          *)
(***************************************************************************)
\* The slide layouts of the library's default template.
NumLayouts == 11

\* prs.slide_layouts[i] indexes a Python list: a negative index counts from
\* the end, anything else out of range raises IndexError.
LayoutInRange(i) == i >= 0 - NumLayouts /\ i < NumLayouts
LayoutOf(i) == IF i < 0 THEN i + NumLayouts ELSE i

\* Layout 6 ("Blank") has no title placeholder.
HasTitlePlaceholder(layout) == layout # 6
\* The placeholders a slide gets from its layout.
PlaceholderCount(layout) ==
    CASE layout = 6 -> 0
      [] layout = 5 -> 1
      [] layout \in {3, 7, 8} -> 3
      [] layout = 4 -> 5
      [] OTHER -> 2

Slide(hasTitle, title, body) == [hasTitle |-> hasTitle, title |-> title, body |-> body]
\* the sentinel "无标题"
NoTitle_text == <<"(no title)">>

\* Presentation(file_path): raises unless the file is a presentation package.
OpenPresentation(fs, loc) ==
    IF loc \in DOMAIN fs /\ fs[loc].kind = "ppt"
    THEN [raised |-> FALSE, exc |-> "", slides |-> fs[loc].slides]
    ELSE [raised |-> TRUE, exc |-> "not a PowerPoint file", slides |-> <<>>]

\* main.py 182-198
create_ppt_presentation(fs, filename, title) ==
    Catch("create_ppt_presentation",
        LET slides == IF title # <<>> THEN <<Slide(TRUE, title, <<>>)>> ELSE <<>>
            p == get_file_path(filename)
        IN  IF p.raised THEN Raise(p.exc, fs)
            ELSE LET s == SaveFile(fs, p.loc, Deck(slides))
                 IN  IF s.raised THEN s
                     ELSE Return(Success("created", "create_ppt_presentation", filename), s.fs))

\* main.py 200-225
add_ppt_slide(fs, filename, title, content, layout_index) ==
    Catch("add_ppt_slide",
        LET p == get_file_path(filename)
        IN  IF p.raised THEN Raise(p.exc, fs)
            ELSE IF ~Exists(fs, p.loc) THEN Return(NotExist(filename), fs)
            ELSE LET d == OpenPresentation(fs, p.loc)
                 IN  IF d.raised THEN Raise(d.exc, fs)
                     ELSE IF ~LayoutInRange(layout_index)
                          THEN Raise("slide layout index out of range", fs)
                     ELSE LET layout == LayoutOf(layout_index)
                              hasTitle == HasTitlePlaceholder(layout)
                              slide == Slide(hasTitle,
                                             IF hasTitle THEN title ELSE <<>>,
                                             IF content # <<>> /\ PlaceholderCount(layout) > 1
                                             THEN content ELSE <<>>)
                              s == SaveFile(fs, p.loc, Deck(Append(d.slides, slide)))
                          IN  IF s.raised THEN s
                              ELSE Return(Success("slide_added", "add_ppt_slide", filename), s.fs))

\* title = "无标题"; if slide.shapes.title and slide.shapes.title.text: ...
SlideTitle(slide) ==
    IF slide.hasTitle /\ slide.title # <<>> THEN slide.title ELSE NoTitle_text

\* main.py 227-251
get_ppt_info(fs, filename) ==
    Catch("get_ppt_info",
        LET p == get_file_path(filename)
        IN  IF p.raised THEN Raise(p.exc, fs)
            ELSE IF ~Exists(fs, p.loc) THEN Return(NotExist(filename), fs)
            ELSE LET d == OpenPresentation(fs, p.loc)
                 IN  IF d.raised THEN Raise(d.exc, fs)
                     ELSE Return([NoResult EXCEPT !.kind = "info", !.op = "get_ppt_info",
                                      !.file = filename,
                                      !.titles = [i \in 1..Len(d.slides) |-> SlideTitle(d.slides[i])]],
                                 fs))

(***************************************************************************)
(* The workspace listing.                                                  *)
(***************************************************************************)
\* A location workspace_dir.iterdir() yields: directly inside the workspace.
InWorkspace(loc) == Len(loc) = 1 /\ loc[1] # DotDot

\* The entries of the listing; the order iterdir() yields them in is the
\* operating system's, and each entry's size is not modelled.
Listing(fs) ==
    { [name |-> BaseName(loc), type |-> Suffix(BaseName(loc))] :
        loc \in {l \in DOMAIN fs : InWorkspace(l) /\ fs[l].kind # "absent"} }

\* main.py 253-267
list_files(fs) ==
    Catch("list_files",
        Return([NoResult EXCEPT !.kind = "listing", !.op = "list_files", !.entries = Listing(fs)], fs))


(***************************************************************************)
(* The tool registry and the dispatcher.                                   *)
(***************************************************************************)
\* main.py 273-405: the names handle_list_tools advertises, in order.
ToolNames ==
    << "create_word_document", "add_word_content", "read_word_document",
       "create_excel_workbook", "write_excel_data", "read_excel_data",
       "create_ppt_presentation", "add_ppt_slide", "get_ppt_info", "list_files" >>

Advertised == {ToolNames[i] : i \in 1..Len(ToolNames)}

\* The argument object: the keys it carries and their values.  A key it
\* does not carry holds the value below, which no branch reads.
NoArgs ==
    [present |-> {}, filename |-> NoFile, title |-> <<>>, content |-> <<>>,
     heading_level |-> 0, sheet_name |-> <<>>, data |-> <<>>,
     start_row |-> 1, start_col |-> 1, layout_index |-> 1]

Canon(a) ==
    [k \in DOMAIN NoArgs |-> IF k = "present" \/ k \in a.present THEN a[k] ELSE NoArgs[k]]

\* arguments.get(key, default)
Get(a, key, default) == IF key \in a.present THEN a[key] ELSE default

\* arguments[k] for each k of keys, left to right: the first one the object
\* lacks raises KeyError(k); "" when none does.
FirstMissing(a, keys) ==
    IF \A i \in 1..Len(keys) : keys[i] \in a.present THEN ""
    ELSE keys[CHOOSE i \in 1..Len(keys) :
                  keys[i] \notin a.present /\ \A j \in 1..(i - 1) : keys[j] \in a.present]

\* The keys each branch of handle_call_tool subscripts, in evaluation order.
Subscripted(name) ==
    CASE name \in {"create_word_document", "read_word_document", "create_excel_workbook",
                   "read_excel_data", "create_ppt_presentation", "get_ppt_info"} -> <<"filename">>
      [] name = "add_word_content" -> <<"filename", "content">>
      [] name = "write_excel_data" -> <<"filename", "sheet_name", "data">>
      [] name = "add_ppt_slide" -> <<"filename", "title">>
      [] OTHER -> <<>>

\* The method call of a branch: its outcome and which method ran.
Invoke(op, out) == [raised |-> out.raised, exc |-> out.exc, res |-> out.res, fs |-> out.fs, invoked |-> op]
NotInvoked(out) == Invoke("none", out)

\* f"未知工具: {name}"
UnknownTool(name) == [NoResult EXCEPT !.kind = "unknown_tool", !.op = name]
\* f"执行工具 '{name}' 时出错: {str(e)}"
ToolError(name, exc) == [NoResult EXCEPT !.kind = "tool_error", !.op = name, !.exc = exc]

\* A faulty variant of Branch: "list_files" is compared without its case.
BranchIgnoringCase(name) == IF name = "LIST_FILES" THEN "list_files" ELSE name

\* The string each if/elif of main.py 411-459 compares for equality.
Branch(name) == name

\* main.py 411-460: the body of the try block
Dispatch(fs, name, a) ==
    LET b == Branch(name)
        k == FirstMissing(a, Subscripted(b))
    IN  IF b \in {"create_word_document", "add_word_content", "read_word_document",
                  "create_excel_workbook", "write_excel_data", "read_excel_data",
                  "create_ppt_presentation", "add_ppt_slide", "get_ppt_info"} /\ k # ""
        THEN NotInvoked(Raise(k, fs))
        ELSE IF b = "create_word_document"
        THEN Invoke(b, create_word_document(fs, a.filename, Get(a, "title", <<>>), Get(a, "content", <<>>)))
        ELSE IF b = "add_word_content"
        THEN Invoke(b, add_word_content(fs, a.filename, a.content, Get(a, "heading_level", 0)))
        ELSE IF b = "read_word_document"
        THEN Invoke(b, read_word_document(fs, a.filename))
        ELSE IF b = "create_excel_workbook"
        THEN Invoke(b, create_excel_workbook(fs, a.filename, Get(a, "sheet_name", Sheet1)))
        ELSE IF b = "write_excel_data"
        THEN Invoke(b, write_excel_data(fs, a.filename, a.sheet_name, a.data,
                                        Get(a, "start_row", 1), Get(a, "start_col", 1)))
        ELSE IF b = "read_excel_data"
        THEN Invoke(b, read_excel_data(fs, a.filename, "sheet_name" \in a.present, a.sheet_name))
        ELSE IF b = "create_ppt_presentation"
        THEN Invoke(b, create_ppt_presentation(fs, a.filename, Get(a, "title", <<>>)))
        ELSE IF b = "add_ppt_slide"
        THEN Invoke(b, add_ppt_slide(fs, a.filename, a.title, Get(a, "content", <<>>),
                                     Get(a, "layout_index", 1)))
        ELSE IF b = "get_ppt_info"
        THEN Invoke(b, get_ppt_info(fs, a.filename))
        ELSE IF b = "list_files"
        THEN Invoke(b, list_files(fs))
        ELSE NotInvoked(Return(UnknownTool(name), fs))

\* CallToolResult(content=[TextContent(type="text", text=...)])
TextReply(res) == [propagated |-> FALSE, content |-> << [type |-> "text", text |-> res] >>]
NoReply == [propagated |-> FALSE, content |-> <<>>]
\* An exception that left handle_call_tool.
Propagated == [propagated |-> TRUE, content |-> <<>>]

\* main.py 407-466
handle_call_tool(fs, name, a) ==
    LET out == Dispatch(fs, name, a)
    IN  IF out.raised
        THEN [reply |-> TextReply(ToolError(name, out.exc)), fs |-> out.fs, invoked |-> out.invoked]
        ELSE [reply |-> TextReply(out.res), fs |-> out.fs, invoked |-> out.invoked]


(***************************************************************************)
(* The inputs the tool calls are drawn from.                               *)
(***************************************************************************)
D_1234 == << <<"1", "2">>, <<"3", "4">> >>
D_5 == << <<"5">> >>
D_null == << <<None_val>> >>
D_1_null == << <<"1", None_val>> >>
D_1_obj == << <<"1", Obj_val>> >>

Write(sheet, data, row, col) == [sheet |-> sheet, data |-> data, row |-> row, col |-> col]

\* the whole tool surface, small arguments
AllInputs ==
    [creates |-> {A_docx, B_xlsx, Up_docx, Sub_xlsx, NotAStr},
     files |-> {A_docx, B_xlsx, NotAStr},
     titles |-> {T_text},
     contents |-> {T_text},
     levels |-> {0, 10},
     newsheets |-> {Bad_sheet},
     sheets |-> {Sheet1, Data_sheet},
     writes |-> {Write(Sheet1, D_5, 1, 1), Write(Sheet1, D_5, 0, 1),
                 Write(Sheet1, D_5, 1, MaxColumnIndex + 1),
                 Write(Sheet1, D_1_obj, 1, 1), Write(Bad_sheet, D_5, 1, 1)},
     layouts |-> {1, 6, NumLayouts},
     unknown |-> {"nonexistent_tool", "LIST_FILES"}]

\* The argument objects a tool is called with: every key given (full), the
\* required keys alone (every default applies), and no key at all (the
\* first subscript raises).
Variants(full, required) ==
    full \cup {Canon([a EXCEPT !.present = required]) : a \in full} \cup {NoArgs}

(***************************************************************************)
(* The state machine: one action per tool name handle_call_tool handles.   *)
(***************************************************************************)
Init ==
    /\ files = [l \in Locations |-> Absent]
    /\ call = [name |-> "", args |-> NoArgs]
    /\ invoked = "none"
    /\ reply = NoReply
    /\ created = {}
    /\ ncalls = 0
    /\ tasks = <<>>
    /\ running = 0
    /\ appended = <<>>

CreateOps == {"create_word_document", "create_excel_workbook", "create_ppt_presentation"}

\* The file names whose create has reported success, after outcome o of a call.
CreatedAfter(o, a) ==
    IF /\ ~o.reply.propagated
       /\ o.invoked \in CreateOps
       /\ o.reply.content[1].text.kind = "created"
    THEN created \cup {a.filename} ELSE created

\* One request handled by handle_call_tool, start to return.
Handle(name, a) ==
    \E o \in {handle_call_tool(files, name, a)} :
        /\ ncalls' = ncalls + 1
        /\ files' = o.fs
        /\ call' = [name |-> name, args |-> a]
        /\ invoked' = o.invoked
        /\ reply' = o.reply
        /\ created' = CreatedAfter(o, a)
        /\ UNCHANGED loopVars

CallCreateWordDocument(I, bound) ==
    /\ ncalls < bound
    /\ \E a \in Variants({[NoArgs EXCEPT !.present = {"filename", "title", "content"},
                                         !.filename = f, !.title = t, !.content = c] :
                             f \in I.creates, t \in I.titles, c \in I.contents},
                         {"filename"}) :
          Handle("create_word_document", a)

CallAddWordContent(I, bound) ==
    /\ ncalls < bound
    /\ \E a \in Variants({[NoArgs EXCEPT !.present = {"filename", "content", "heading_level"},
                                         !.filename = f, !.content = c, !.heading_level = h] :
                             f \in I.files, c \in I.contents, h \in I.levels},
                         {"filename", "content"}) :
          Handle("add_word_content", a)

CallReadWordDocument(I, bound) ==
    /\ ncalls < bound
    /\ \E a \in Variants({[NoArgs EXCEPT !.present = {"filename"}, !.filename = f] : f \in I.files},
                         {"filename"}) :
          Handle("read_word_document", a)

CallCreateExcelWorkbook(I, bound) ==
    /\ ncalls < bound
    /\ \E a \in Variants({[NoArgs EXCEPT !.present = {"filename", "sheet_name"},
                                         !.filename = f, !.sheet_name = sh] :
                             f \in I.creates, sh \in I.newsheets},
                         {"filename"}) :
          Handle("create_excel_workbook", a)

CallWriteExcelData(I, bound) ==
    /\ ncalls < bound
    /\ \E a \in Variants({[NoArgs EXCEPT !.present = {"filename", "sheet_name", "data",
                                                      "start_row", "start_col"},
                                         !.filename = f, !.sheet_name = w.sheet, !.data = w.data,
                                         !.start_row = w.row, !.start_col = w.col] :
                             f \in I.files, w \in I.writes},
                         {"filename", "sheet_name", "data"}) :
          Handle("write_excel_data", a)

CallReadExcelData(I, bound) ==
    /\ ncalls < bound
    /\ \E a \in Variants({[NoArgs EXCEPT !.present = {"filename", "sheet_name"},
                                         !.filename = f, !.sheet_name = sh] :
                             f \in I.files, sh \in I.sheets},
                         {"filename"}) :
          Handle("read_excel_data", a)

CallCreatePptPresentation(I, bound) ==
    /\ ncalls < bound
    /\ \E a \in Variants({[NoArgs EXCEPT !.present = {"filename", "title"},
                                         !.filename = f, !.title = t] :
                             f \in I.creates, t \in I.titles},
                         {"filename"}) :
          Handle("create_ppt_presentation", a)

CallAddPptSlide(I, bound) ==
    /\ ncalls < bound
    /\ \E a \in Variants({[NoArgs EXCEPT !.present = {"filename", "title", "content", "layout_index"},
                                         !.filename = f, !.title = t, !.content = c,
                                         !.layout_index = l] :
                             f \in I.files, t \in I.titles, c \in I.contents, l \in I.layouts},
                         {"filename", "title"}) :
          Handle("add_ppt_slide", a)

CallGetPptInfo(I, bound) ==
    /\ ncalls < bound
    /\ \E a \in Variants({[NoArgs EXCEPT !.present = {"filename"}, !.filename = f] : f \in I.files},
                         {"filename"}) :
          Handle("get_ppt_info", a)

CallListFiles(bound) ==
    /\ ncalls < bound
    /\ Handle("list_files", NoArgs)

\* A name no branch compares equal to.
CallUnknownTool(I, bound) ==
    /\ ncalls < bound
    /\ \E n \in I.unknown :
       \E a \in {NoArgs, [NoArgs EXCEPT !.present = {"filename"}, !.filename = A_docx]} :
          Handle(n, a)

Next ==
    \/ CallCreateWordDocument(AllInputs, MaxCalls)
    \/ CallAddWordContent(AllInputs, MaxCalls)
    \/ CallReadWordDocument(AllInputs, MaxCalls)
    \/ CallCreateExcelWorkbook(AllInputs, MaxCalls)
    \/ CallWriteExcelData(AllInputs, MaxCalls)
    \/ CallReadExcelData(AllInputs, MaxCalls)
    \/ CallCreatePptPresentation(AllInputs, MaxCalls)
    \/ CallAddPptSlide(AllInputs, MaxCalls)
    \/ CallGetPptInfo(AllInputs, MaxCalls)
    \/ CallListFiles(MaxCalls)
    \/ CallUnknownTool(AllInputs, MaxCalls)

Spec == Init /\ [][Next]_vars

(***************************************************************************)
(* The Word tools alone, with texts that are empty, blank, or hold a       *)
(* carriage return, and heading levels inside and outside 0..9.            *)
(***************************************************************************)
WordInputs ==
    [creates |-> {A_docx, Sub_xlsx},
     files |-> {A_docx},
     titles |-> {<<>>, Blank_text, T_text, CR_text},
     contents |-> {<<>>, Blank_text, Body_text, CR_text},
     levels |-> {0, 1, 10}]

NextWord ==
    \/ CallCreateWordDocument(WordInputs, MaxCalls)
    \/ CallAddWordContent(WordInputs, MaxCalls)
    \/ CallReadWordDocument(WordInputs, MaxCalls)

SpecWord == Init /\ [][NextWord]_vars

(***************************************************************************)
(* The Excel tools alone, with arrays that hold nulls, offsets other than  *)
(* (1, 1), and a 10 x 10 array.                                            *)
(***************************************************************************)
D_10x10 == [i \in 1..10 |-> [j \in 1..10 |-> ToString(10 * (i - 1) + j)]]

ExcelInputs ==
    [creates |-> {B_xlsx},
     files |-> {B_xlsx},
     newsheets |-> {Sheet1, Data_sheet},
     sheets |-> {Sheet1, Data_sheet},
     writes |-> {Write(Sheet1, D_1234, 1, 1), Write(Sheet1, D_1234, 2, 2),
                 Write(Sheet1, D_5, 1, 1), Write(Sheet1, D_5, 3, 1),
                 Write(Sheet1, D_null, 1, 1), Write(Sheet1, D_1_null, 1, 1),
                 Write(Sheet1, D_1_obj, 1, 1), Write(Sheet1, D_10x10, 1, 1),
                 Write(Data_sheet, D_5, 1, 2),
                 Write(Sheet1, D_5, 0, 1), Write(Sheet1, D_1234, 1, MaxColumnIndex)}]

NextExcel ==
    \/ CallCreateExcelWorkbook(ExcelInputs, MaxCalls)
    \/ CallWriteExcelData(ExcelInputs, MaxCalls)
    \/ CallReadExcelData(ExcelInputs, MaxCalls)

SpecExcel == Init /\ [][NextExcel]_vars

(***************************************************************************)
(* The event loop.  main() awaits server.run, which starts one handler     *)
(* task per request it receives; all tasks share one thread, and a task    *)
(* gives the thread up only where it awaits.  The handler's statements are *)
(* taken one step at a time here: open, mutate, save.                      *)
(***************************************************************************)
\* A faulty variant of YieldPoints: the handler awaits after opening the file.
YieldAfterOpen == {"opened"}

\* The places between two steps of handle_call_tool where it awaits:
\* main.py 407-466 holds no await, and the OfficeManager methods are plain
\* functions.
YieldPoints == {}

LoopRequests ==
    { [name |-> "create_word_document", filename |-> A_docx, title |-> T_text, content |-> <<>>],
      [name |-> "add_word_content", filename |-> A_docx, title |-> <<>>, content |-> Body_text],
      [name |-> "add_word_content", filename |-> A_docx, title |-> <<>>, content |-> T_text] }

Task(req) == [req |-> req, pc |-> "pending", doc |-> <<>>, res |-> NoResult]

InCall(i) == tasks[i].pc \in {"opened", "mutated"}

\* The thread after task i reached pc: the task keeps it unless it is done
\* or awaits there.
ThreadAfter(i, pc) == IF pc = "done" \/ pc \in YieldPoints THEN 0 ELSE i

\* The loop may run a step of task i: the thread is free, or i holds it.
MayRun(i) == running \in {0, i}

\* The transport delivers a request and the server starts a task for it.
Receive ==
    /\ Len(tasks) < MaxRequests
    /\ \E req \in LoopRequests : tasks' = Append(tasks, Task(req))
    /\ UNCHANGED <<files, call, invoked, reply, created, ncalls, running, appended>>

Finish(i, res) == [tasks EXCEPT ![i].pc = "done", ![i].res = res]

\* main.py 56 (Document()) and 74-79 (exists check, Document(file_path))
StepOpen(i) ==
    /\ i \in 1..Len(tasks) /\ tasks[i].pc = "pending" /\ MayRun(i)
    /\ \E t \in {tasks[i]} : \E p \in {get_file_path(t.req.filename)} :
        IF t.req.name = "create_word_document"
        THEN /\ tasks' = [tasks EXCEPT ![i].pc = "opened", ![i].doc = <<>>]
             /\ running' = ThreadAfter(i, "opened")
        ELSE IF ~Exists(files, p.loc)
        THEN /\ tasks' = Finish(i, NotExist(t.req.filename))
             /\ running' = 0
        ELSE \E d \in {OpenDocument(files, p.loc)} :
                IF d.raised
                THEN /\ tasks' = Finish(i, Failure(t.req.name, d.exc))
                     /\ running' = 0
                ELSE /\ tasks' = [tasks EXCEPT ![i].pc = "opened", ![i].doc = d.paras]
                     /\ running' = ThreadAfter(i, "opened")
    /\ UNCHANGED <<files, call, invoked, reply, created, ncalls, appended>>

\* main.py 58-62 and 81-84
StepMutate(i) ==
    /\ i \in 1..Len(tasks) /\ tasks[i].pc = "opened" /\ MayRun(i)
    /\ \E t \in {tasks[i]} :
        \E d1 \in {IF t.req.title # <<>> THEN AddParagraph(t.doc, t.req.title) ELSE t.doc} :
        \E d2 \in {IF t.req.content # <<>> THEN AddParagraph(d1, t.req.content) ELSE d1} :
            tasks' = [tasks EXCEPT ![i].pc = "mutated", ![i].doc = d2]
    /\ running' = ThreadAfter(i, "mutated")
    /\ UNCHANGED <<files, call, invoked, reply, created, ncalls, appended>>

\* main.py 64-67 and 86-88
StepSave(i) ==
    /\ i \in 1..Len(tasks) /\ tasks[i].pc = "mutated" /\ MayRun(i)
    /\ \E t \in {tasks[i]} :
       \E s \in {SaveFile(files, get_file_path(t.req.filename).loc, WordDoc(t.doc))} :
        /\ files' = s.fs
        /\ tasks' = Finish(i, IF s.raised THEN Failure(t.req.name, s.exc)
                              ELSE Success("saved", t.req.name, t.req.filename))
        /\ appended' = IF s.raised THEN appended
                       ELSE IF t.req.name = "create_word_document"
                       THEN t.doc
                       ELSE Append(appended, ParagraphText(t.req.content))
    /\ running' = 0
    /\ UNCHANGED <<call, invoked, reply, created, ncalls>>

NextLoop ==
    \/ Receive
    \/ \E i \in 1..MaxRequests : StepOpen(i)
    \/ \E i \in 1..MaxRequests : StepMutate(i)
    \/ \E i \in 1..MaxRequests : StepSave(i)

SpecLoop == Init /\ [][NextLoop]_vars

(***************************************************************************)
(* Properties.                                                             *)
(***************************************************************************)
Called == call.name # ""
\* the text of the reply to the call handled last
Res == reply.content[1].text
CallLoc == Resolve(<<>>, call.args.filename.comps)
NamesAFile == "filename" \in call.args.present /\ call.args.filename.ty = "str"
Present(fs) == {l \in DOMAIN fs : fs[l].kind # "absent"}

NeedsFile ==
    {"add_word_content", "read_word_document", "write_excel_data", "read_excel_data",
     "add_ppt_slide", "get_ppt_info"}
Mutating ==
    {"create_word_document", "add_word_content", "create_excel_workbook", "write_excel_data",
     "create_ppt_presentation", "add_ppt_slide"}
SuccessKinds == {"created", "added", "written", "slide_added"}
FailureKinds == {"failed", "not_exist", "no_sheet", "tool_error", "unknown_tool"}

\* C1: every call, whatever its name and argument object, gets exactly one
\* text result and no exception leaves handle_call_tool; a method that was
\* invoked returned a string, and where its body raised, that string is the
\* method's failure message holding the exception's string form.
C1_AlwaysOneTextResult ==
    Called =>
        /\ ~reply.propagated
        /\ Len(reply.content) = 1
        /\ reply.content[1].type = "text"
        /\ Res.kind # "none"
        /\ invoked # "none" =>
              /\ Res.kind # "tool_error"
              /\ Res.kind = "failed" => (Res.op = invoked /\ Res.exc # "")
        /\ Res.kind = "tool_error" =>
              (Res.op = call.name /\ Res.exc = FirstMissing(call.args, Subscripted(call.name)))

\* write_excel_data raised in its cell loop and the caller got the failure text
C1_Witness ==
    /\ invoked = "write_excel_data"
    /\ Res.kind = "failed"
    /\ Res.exc = "Row or column values must be at least 1"

\* C2: a call of an operation that requires an existing file, on a file
\* name with no file behind it, returns the does-not-exist text and leaves
\* every file as it was.
C2_MissingFileLeavesWorkspace ==
    [][ ( /\ invoked' \in NeedsFile
          /\ call'.args.filename.ty = "str"
          /\ Resolve(<<>>, call'.args.filename.comps) \notin Present(files) )
        => ( /\ reply'.content[1].text = NotExist(call'.args.filename)
             /\ files' = files ) ]_vars

\* a write to a missing workbook was answered so while another file existed
C2_Witness ==
    /\ invoked = "write_excel_data"
    /\ Res.kind = "not_exist"
    /\ Present(files) # {}

\* C3: a mutating operation is all-or-nothing: it reports success and the
\* file holds the mutated document, or it reports a failure and every file
\* is what it was before the call.
C3_AllOrNothing ==
    [][ invoked' \in Mutating =>
          \/ /\ reply'.content[1].text.kind \in SuccessKinds
             /\ files'[Resolve(<<>>, call'.args.filename.comps)].kind \in {"word", "excel", "ppt"}
          \/ /\ reply'.content[1].text.kind \in FailureKinds
             /\ files' = files ]_vars

\* C3, where it holds: a failure raised before the save began leaves every
\* file untouched; so do a cell loop that raises and a layout index out of
\* range.
C3_FailureBeforeSaveKeepsFiles ==
    [][ ( /\ invoked' \in Mutating
          /\ reply'.content[1].text.kind \in FailureKinds
          /\ reply'.content[1].text.exc # "Invalid column index" )
        => files' = files ]_vars

\* C4: a name outside the advertised set gets the unknown-tool text, no
\* method runs and no file changes; an advertised name never gets it, and
\* its own method runs once its subscripted keys are there.
C4_DispatchByExactName ==
    [][ /\ call'.name \notin Advertised =>
            /\ reply'.content[1].text = UnknownTool(call'.name)
            /\ invoked' = "none"
            /\ files' = files
        /\ call'.name \in Advertised =>
            /\ reply'.content[1].text.kind # "unknown_tool"
            /\ invoked' \in {"none", call'.name}
            /\ FirstMissing(call'.args, Subscripted(call'.name)) = "" => invoked' = call'.name ]_vars

\* an unknown name was answered with the unknown-tool text, files in place
C4_Witness ==
    /\ call.name = "nonexistent_tool"
    /\ Res.kind = "unknown_tool"
    /\ invoked = "none"
    /\ Present(files) # {}

\* C9: the listing list_files returns has exactly one entry per file whose
\* create reported success, named as that file is.
C9_ListingMatchesCreated ==
    (invoked = "list_files" /\ Res.kind = "listing") =>
        /\ {e.name : e \in Res.entries} = {BaseName(Resolve(<<>>, f.comps)) : f \in created}
        /\ Cardinality(Res.entries) = Cardinality({Resolve(<<>>, f.comps) : f \in created})

\* C9, where it holds: the listing is exactly the files directly inside the
\* workspace, each with the suffix of its name; list_files changes no file.
C9_ListingIsWorkspace ==
    [][ invoked' = "list_files" =>
          /\ files' = files
          /\ reply'.content[1].text.entries =
                { [name |-> l[1], type |-> Suffix(l[1])] :
                    l \in {x \in Present(files) : Len(x) = 1 /\ x[1] # DotDot} } ]_vars

(***************************************************************************)
(* Word properties (SpecWord).                                             *)
(***************************************************************************)
ParasAt(fs, loc) == fs[loc].paras
IsWordStep(name) == invoked' = name /\ call'.args.filename.ty = "str"
NextLoc == Resolve(<<>>, call'.args.filename.comps)
NextRes == reply'.content[1].text
NL == <<"\n">>
CrAsNl(s) == [i \in 1..Len(s) |-> IF s[i] = "\r" THEN "\n" ELSE s[i]]
NotBlank(s) == \E i \in 1..Len(s) : s[i] \notin Whitespace
Keep(paras) == SelectSeq(paras, NotBlank)

\* C5 as stated: every add_word_content call on an existing Word document,
\* with any content and any heading_level, leaves a document whose read is
\* the non-blank paragraphs it had, in order, plus the new one last.
C5_EveryAppendReadsBackLast ==
    [][ (IsWordStep("add_word_content") /\ files[NextLoc].kind = "word")
        => /\ files'[NextLoc].kind = "word"
           /\ Keep(ParasAt(files', NextLoc))
                = Append(Keep(ParasAt(files, NextLoc)), CrAsNl(call'.args.content)) ]_vars

\* C5 amended: no add_word_content call removes a paragraph; a call that
\* succeeds (heading_level at most 9) with content that is not blank makes
\* the read the earlier non-blank paragraphs in order plus the new one last;
\* a call with blank content, or a heading_level above 9, leaves the read
\* as it was.
C5_AppendKeepsParagraphs ==
    [][ (IsWordStep("add_word_content") /\ files[NextLoc].kind = "word")
        => LET before == Keep(ParasAt(files, NextLoc))
               after == Keep(ParasAt(files', NextLoc))
               content == call'.args.content
               level == Get(call'.args, "heading_level", 0)
           IN  /\ files'[NextLoc].kind = "word"
               /\ NextRes.kind = "added" <=> level <= 9
               /\ (NextRes.kind = "added" /\ NotBlank(content))
                    => /\ after = Append(before, CrAsNl(content))
                       /\ read_word_document(files', call'.args.filename).res.text
                            = Join(NL, Append(before, CrAsNl(content)))
               /\ (NextRes.kind # "added" \/ ~NotBlank(content)) => after = before
               /\ NextRes.kind # "added" => files' = files ]_vars

\* a non-blank paragraph was appended to a document that already read two
C5_Witness ==
    /\ invoked = "add_word_content"
    /\ Res.kind = "added"
    /\ NamesAFile
    /\ NotBlank(call.args.content)
    /\ Len(Keep(ParasAt(files, CallLoc))) = 3

\* C6 as stated: create_word_document(f, title, content) and then
\* read_word_document(f) returns title, a newline, content, for every title
\* and content.
C6_CreateThenReadJoins ==
    [][ ( /\ call.name = "create_word_document" /\ invoked = "create_word_document"
          /\ invoked' = "read_word_document"
          /\ call'.args.filename = call.args.filename )
        => /\ NextRes.kind = "text"
           /\ NextRes.text = Get(call.args, "title", <<>>) \o NL \o Get(call.args, "content", <<>>) ]_vars

\* C6 amended: after a create_word_document(f, title, content) that
\* reported success, read_word_document(f) returns those of title and
\* content that are not blank, joined by a newline, each carriage return
\* read back as a newline: title, newline, content when neither is blank
\* nor holds a carriage return; whatever f held before the create.
C6_CreateThenReadNonBlank ==
    [][ ( /\ call.name = "create_word_document" /\ invoked = "create_word_document"
          /\ Res.kind = "created"
          /\ invoked' = "read_word_document"
          /\ call'.args.filename = call.args.filename )
        => LET title == Get(call.args, "title", <<>>)
               content == Get(call.args, "content", <<>>)
           IN  /\ NextRes.kind = "text"
               /\ NextRes.text =
                    IF NotBlank(title) /\ NotBlank(content) THEN CrAsNl(title) \o NL \o CrAsNl(content)
                    ELSE IF NotBlank(title) THEN CrAsNl(title)
                    ELSE IF NotBlank(content) THEN CrAsNl(content)
                    ELSE <<>>
               /\ (NotBlank(title) /\ NotBlank(content)
                   /\ (\A i \in 1..Len(title) : title[i] # "\r")
                   /\ (\A i \in 1..Len(content) : content[i] # "\r"))
                    => NextRes.text = title \o NL \o content ]_vars

\* "T" and "body" were written over an existing document and read back
C6_Witness ==
    /\ invoked = "read_word_document"
    /\ ncalls = 3
    /\ Res.kind = "text"
    /\ Res.text = <<"T", "\n", "b", "o", "d", "y">>

(***************************************************************************)
(* Excel properties (SpecExcel).                                           *)
(***************************************************************************)
CellsAt(fs, loc) == fs[loc].cells
\* the value the saved sheet holds at (r, c): "null" where it holds none
Held(cells, sheet, r, c) ==
    IF \E x \in cells : x.sheet = sheet /\ x.row = r /\ x.col = c
    THEN (CHOOSE x \in cells : x.sheet = sheet /\ x.row = r /\ x.col = c).val
    ELSE "null"
InRectangle(x, a) ==
    /\ x.sheet = a.sheet_name
    /\ x.row - a.start_row + 1 \in 1..Len(a.data)
    /\ x.col - a.start_col + 1 \in 1..Len(a.data[x.row - a.start_row + 1])
\* the arguments of the write handled in this step, defaults applied
NextWrite ==
    [sheet_name |-> call'.args.sheet_name, data |-> call'.args.data,
     start_row |-> Get(call'.args, "start_row", 1), start_col |-> Get(call'.args, "start_col", 1)]
WriteSucceeds == invoked' = "write_excel_data" /\ NextRes.kind = "written"

\* C7: a successful write_excel_data puts data[i][j] at cell
\* (start_row + i, start_col + j), makes the sheet when it is absent, and
\* changes no cell outside the rectangle and no other sheet.
C7_WritePlacesEveryElement ==
    [][ WriteSucceeds =>
          LET a == NextWrite
              old == CellsAt(files, NextLoc)
              new == CellsAt(files', NextLoc)
          IN  /\ \E k \in 1..Len(files'[NextLoc].sheets) : files'[NextLoc].sheets[k] = a.sheet_name
              /\ \A i \in 1..Len(a.data) : \A j \in 1..Len(a.data[i]) :
                    Held(new, a.sheet_name, a.start_row + i - 1, a.start_col + j - 1) = a.data[i][j]
              /\ {x \in new : ~InRectangle(x, a)} = {x \in old : ~InRectangle(x, a)} ]_vars

\* C7, where it holds: the same with every element that is not null; a
\* null element leaves its cell as it was.
C7_WritePlacesNonNullElements ==
    [][ WriteSucceeds =>
          LET a == NextWrite
              old == CellsAt(files, NextLoc)
              new == CellsAt(files', NextLoc)
          IN  /\ \E k \in 1..Len(files'[NextLoc].sheets) : files'[NextLoc].sheets[k] = a.sheet_name
              /\ \A i \in 1..Len(a.data) : \A j \in 1..Len(a.data[i]) :
                    Held(new, a.sheet_name, a.start_row + i - 1, a.start_col + j - 1)
                      = IF a.data[i][j] # "null" THEN a.data[i][j]
                        ELSE Held(old, a.sheet_name, a.start_row + i - 1, a.start_col + j - 1)
              /\ {x \in new : ~InRectangle(x, a)} = {x \in old : ~InRectangle(x, a)} ]_vars

IsScenarioWrite(c) ==
    /\ c.name = "write_excel_data"
    /\ c.args.filename = B_xlsx
    /\ {"filename", "sheet_name", "data"} \subseteq c.args.present
    /\ c.args.sheet_name = Sheet1
    /\ c.args.data = D_1234
    /\ Get(c.args, "start_row", 1) = 1
    /\ Get(c.args, "start_col", 1) = 1
IsScenarioRead(c) ==
    /\ c.name = "read_excel_data"
    /\ c.args.filename = B_xlsx
    /\ "sheet_name" \in c.args.present
    /\ c.args.sheet_name = Sheet1

\* C8 as stated: write_excel_data("b.xlsx", "Sheet1", [[1,2],[3,4]]) and
\* then read_excel_data("b.xlsx", "Sheet1") returns [[1,2],[3,4]], whatever
\* came before the write.
C8_WriteThenReadScenario ==
    [][ (IsScenarioWrite(call) /\ IsScenarioRead(call'))
        => (NextRes.kind = "rows" /\ NextRes.rows = D_1234) ]_vars

Rectangular(d) == Len(d) > 0 /\ \A i \in 1..Len(d) : Len(d[i]) = Len(d[1]) /\ Len(d[1]) > 0
NoEmptyRow(d) == \A i \in 1..Len(d) : \E j \in 1..Len(d[i]) : d[i][j] # "null"
LastColumnHeld(d) == \E i \in 1..Len(d) : d[i][Len(d[i])] # "null"

\* C8 amended: on a workbook that exists, a successful write at (1, 1) of a
\* rectangular array with no all-empty row and a last column that is not
\* all-empty, into a sheet that held no value, leaves a sheet whose read is
\* that array, row for row; the read that follows a successful write of
\* [[1,2],[3,4]] to "Sheet1" of "b.xlsx" created just before returns
\* [[1,2],[3,4]]; and on a workbook that does not exist both calls return
\* the does-not-exist text.
C8_CreateWriteThenRead ==
    [][ /\ ( /\ WriteSucceeds
             /\ NextWrite.start_row = 1 /\ NextWrite.start_col = 1
             /\ Rectangular(NextWrite.data) /\ NoEmptyRow(NextWrite.data)
             /\ LastColumnHeld(NextWrite.data)
             /\ {x \in CellsAt(files, NextLoc) : x.sheet = NextWrite.sheet_name} = {} )
           => read_excel_data(files', call'.args.filename, TRUE, NextWrite.sheet_name).res.rows
                = NextWrite.data
        /\ ( /\ IsScenarioWrite(call) /\ Res.kind = "written" /\ ncalls = 2
             /\ IsScenarioRead(call') )
           => (NextRes.kind = "rows" /\ NextRes.rows = D_1234)
        /\ ( /\ IsScenarioWrite(call) /\ Res.kind = "not_exist"
             /\ IsScenarioRead(call') )
           => NextRes.kind = "not_exist" ]_vars

\* create, write [[1,2],[3,4]], read: the read returned the array
C8_Witness ==
    /\ IsScenarioRead(call)
    /\ ncalls = 3
    /\ Res.kind = "rows"
    /\ Res.rows = D_1234

(***************************************************************************)
(* Event-loop properties (SpecLoop).                                       *)
(***************************************************************************)
\* C10: with any number of requests received, at most one call is between
\* its open and its save, none is when the thread is free, and the saved
\* document holds every paragraph whose append reported success: no update
\* is lost.
C10_OneCallAtATime ==
    /\ Cardinality({i \in 1..Len(tasks) : InCall(i)}) <= 1
    /\ running = 0 => {i \in 1..Len(tasks) : InCall(i)} = {}
    /\ running # 0 => InCall(running)
    /\ files[Resolve(<<>>, A_docx.comps)].kind = "word"
         => files[Resolve(<<>>, A_docx.comps)].paras = appended

\* a call is between its open and its save on a.docx, saved by an earlier
\* call, while another request for the same file waits
C10_Witness ==
    /\ Len(tasks) = 3
    /\ tasks[1].pc = "done"
    /\ InCall(2) /\ running = 2
    /\ tasks[3].pc = "pending"
    /\ files[Resolve(<<>>, A_docx.comps)].kind = "word"

=============================================================================
